---- MODULE Spec2Model ----
(***************************************************************************)
(* Page-object layer of the reverseoutfit.com end-to-end suite:             *)
(* BasePage (src/pages/BasePage.ts) and HomePage (src/unnamed/part_000)     *)
(* driven against one browser session.  Every async method is cut at its   *)
(* awaits: the synchronous segment up to an await issues session            *)
(* operations, the session settles them, the method resumes.                *)
(***************************************************************************)
EXTENDS Integers, Sequences, FiniteSets, TLC

VARIABLES
    url,        \* session: path segments of the current URL
    loadState,  \* session: readiness level of the current document
    scrollY,    \* session: index of the page band shown in the viewport
    dom,        \* session: the elements the locators resolve to
    frame,      \* the method the scenario is running, its step and results
    inflight,   \* session operations issued and not yet settled
    settled,    \* outcomes of settled operations not yet consumed
    elapsed,    \* ms since the running call started
    log,        \* operations issued and settled by the running call, in order
    result      \* how the last call ended

vars == <<url, loadState, scrollY, dom, frame, inflight, settled, elapsed, log, result>>

----------------------------------------------------------------------------
(* Timeouts *)

ProbeTimeout == 5000
DefaultWaitTimeout == 30000
ActionTimeout == 15 * 1000
NavigationTimeout == 30 * 1000

(* Times, in ms after the call starts, at which an element may become      *)
(* visible; Never marks an element that never does.                        *)
Soon == 3000
Late == 12000
Never == 0 - 1
MaxProducts == 2

----------------------------------------------------------------------------
(* Values *)

Null == <<"null">>          \* textContent() of a node without text content
NoLink == <<"nolink">>      \* a product item holding no link at all
Void == <<"void">>          \* Promise<void>
None == "-"

Max(a, b) == IF a >= b THEN a ELSE b

(* String.prototype.trim *)
RECURSIVE TrimLeft(_)
TrimLeft(s) == IF s # <<>> /\ Head(s) = " " THEN TrimLeft(Tail(s)) ELSE s
RECURSIVE TrimRight(_)
TrimRight(s) ==
    IF s # <<>> /\ s[Len(s)] = " " THEN TrimRight(SubSeq(s, 1, Len(s) - 1)) ELSE s
Trim(s) == TrimRight(TrimLeft(s))

(* JavaScript truthiness of a string | null *)
Truthy(s) == s # Null /\ s # <<>>

Texts == { <<>>, <<" ">>, <<"a">>, <<" ", "a", " ">> }
CardTexts == { Null, NoLink, <<>>, <<" ">>, <<" ", "a", " ">> }

----------------------------------------------------------------------------
(* URLs *)

BlankUrl == <<"about:blank">>
RootPath == <<>>
MenPath == <<"collections", "men">>
WomenPath == <<"collections", "women">>
Contains(u, seg) == \E i \in 1..Len(u) : u[i] = seg

(* Where the site's links lead. *)
Href(loc) ==
    CASE loc = "logo" -> RootPath
      [] loc = "bundleOffersMenu" -> <<"collections", "bundle-offers">>
      [] loc = "aboutUsMenu" -> <<"pages", "about-us">>
      [] loc = "contactMenu" -> <<"pages", "contact">>
      [] loc = "productLink" -> <<"products", "item">>
      [] OTHER -> <<>>
IsLink(loc) == loc \in {"logo", "bundleOffersMenu", "aboutUsMenu", "contactMenu", "productLink"}

Level(s) ==
    CASE s = "none" -> 0
      [] s = "commit" -> 1
      [] s = "domcontentloaded" -> 2
      [] s = "load" -> 3
      [] s = "networkidle" -> 4

----------------------------------------------------------------------------
(* Locators and the document *)

Named == {"logo", "menMenu", "womenMenu", "bundleOffersMenu", "aboutUsMenu",
          "contactMenu", "featuredProductsHeading"}
Locators == Named \cup {"productCards", "firstProduct", "productLink"}

ElStates == { [attached |-> FALSE, visibleAt |-> Never],
              [attached |-> TRUE, visibleAt |-> Never],
              [attached |-> TRUE, visibleAt |-> 0],
              [attached |-> TRUE, visibleAt |-> Soon],
              [attached |-> TRUE, visibleAt |-> Late] }
Present == [attached |-> TRUE, visibleAt |-> 0]
Absent == [attached |-> FALSE, visibleAt |-> Never]

CardLists == UNION { [1..n -> CardTexts] : n \in 0..MaxProducts }

(* Band of the page an element lies in. *)
Position(loc) == IF loc \in {"featuredProductsHeading", "productCards", "firstProduct", "productLink"}
                 THEN 1 ELSE 0

(* The element a locator resolves to; n selects a product item's link.     *)
El(d, loc, n) ==
    CASE loc \in Named -> d.el[loc]
      [] loc \in {"productCards", "firstProduct"} ->
            d.first
      [] loc = "productLink" ->
            IF n > Len(d.cards) \/ d.cards[n] = NoLink THEN Absent
            ELSE IF n = 1 THEN d.first ELSE Present

TextOf(d, loc, n) ==
    IF loc = "productLink" THEN d.cards[n] ELSE d.text

DefaultDom == [el |-> [e \in Named |-> Present], first |-> Present,
               cards |-> <<<<"a">>>>, text |-> <<"a">>, busy |-> FALSE]

(* Documents that differ from the default one only in what `reads` names.  *)
(* The first product item is there exactly when the list is not empty.     *)
(* A busy document keeps requesting (a chat or tracking widget): its       *)
(* network never falls idle.                                               *)
Documents(reads) ==
    UNION {
      { [el |-> [e \in Named |-> IF e \in reads THEN f[e] ELSE Present],
         first |-> fp, cards |-> cs, text |-> tx, busy |-> b] :
          f \in [reads \cap Named -> ElStates],
          fp \in (IF cs = <<>> THEN {Absent}
                  ELSE IF "firstProduct" \in reads THEN ElStates \ {Absent} ELSE {Present}),
          tx \in (IF "text" \in reads THEN Texts \cup {Null} ELSE {DefaultDom.text}),
          b \in (IF "network" \in reads THEN BOOLEAN ELSE {DefaultDom.busy}) } :
      cs \in (IF "productCards" \in reads THEN CardLists
              ELSE IF "firstProduct" \in reads THEN {DefaultDom.cards, <<>>}
              ELSE {DefaultDom.cards}) }

----------------------------------------------------------------------------
(* Session operations: the calls the page objects make on the Page and on  *)
(* Locators.  An operation is issued at `start` and settles later with an  *)
(* outcome [ok, err, val, t].                                               *)

Operation(kind, loc, state, path, timeout) ==
    [kind |-> kind, loc |-> loc, n |-> 1, state |-> state, path |-> path,
     timeout |-> timeout, slot |-> "main", via |-> "direct", start |-> 0]

PageGoto(path) == Operation("goto", None, None, path, NavigationTimeout)
PageTitle == Operation("title", None, None, <<>>, 0)
PageWaitForLoadState(state) == Operation("waitForLoadState", None, state, <<>>, NavigationTimeout)
PageScreenshot == Operation("screenshot", None, None, <<>>, 0)
LocatorClick(loc) == Operation("click", loc, None, <<>>, ActionTimeout)
LocatorFill(loc) == Operation("fill", loc, None, <<>>, ActionTimeout)
LocatorWaitFor(loc, state, timeout) == Operation("waitFor", loc, state, <<>>, timeout)
LocatorTextContent(loc) == Operation("textContent", loc, None, <<>>, ActionTimeout)
LocatorAllTextContents(loc) == Operation("allTextContents", loc, None, <<>>, 0)
LocatorScrollIntoViewIfNeeded(loc) == Operation("scrollIntoViewIfNeeded", loc, None, <<>>, ActionTimeout)
LocatorCount(loc) == Operation("count", loc, None, <<>>, 0)
LocatorAll(loc) == Operation("all", loc, None, <<>>, 0)

Ok(val, t) == [ok |-> TRUE, err |-> None, val |-> val, t |-> t]
Fail(err, t) == [ok |-> FALSE, err |-> err, val |-> Void, t |-> t]
Deadline(op) == op.start + op.timeout

(* When the element reaches the awaited state, or Never. *)
Reaches(e, state, start) ==
    CASE state = "visible" -> IF e.visibleAt = Never THEN Never ELSE Max(start, e.visibleAt)
      [] state = "hidden" -> IF e.visibleAt = Never \/ e.visibleAt > start THEN start ELSE Never
      [] state = "attached" -> IF e.attached THEN start ELSE Never
      [] state = "detached" -> IF e.attached THEN Never ELSE start

(* An operation that waits for its element: done once the element is in    *)
(* `state`, a TimeoutError at the deadline otherwise; any of them may also *)
(* fail at once with another error (a locator resolving to two elements).  *)
Awaited(op, state, val) ==
    LET at == Reaches(El(dom, op.loc, op.n), state, op.start)
    IN  { IF at # Never /\ at < Deadline(op) THEN Ok(val, at)
          ELSE Fail("TimeoutError", Deadline(op)),
          Fail("Error", op.start) }

AllTexts(loc) ==
    IF loc = "productCards" THEN [i \in 1..Len(dom.cards) |-> dom.cards[i]]
    ELSE IF El(dom, loc, 1).attached THEN <<dom.text>> ELSE <<>>

Outcomes(op) ==
    CASE op.kind = "goto" ->
            { Ok(Void, op.start), Fail("NavigationError", op.start),
              Fail("NavigationError", Deadline(op)) }
      [] op.kind = "waitForLoadState" ->
            IF op.state = "networkidle" /\ dom.busy THEN { Fail("TimeoutError", Deadline(op)) }
            ELSE IF Level(loadState) >= Level(op.state) THEN { Ok(Void, Max(op.start, elapsed)) }
            ELSE { Ok(Void, Max(op.start, elapsed)), Fail("TimeoutError", Deadline(op)) }
      [] op.kind = "waitFor" -> Awaited(op, op.state, Void)
      [] op.kind = "click" -> Awaited(op, "visible", Void)
      [] op.kind = "fill" -> Awaited(op, "visible", Void)
      [] op.kind = "scrollIntoViewIfNeeded" -> Awaited(op, "attached", Void)
      [] op.kind = "textContent" -> Awaited(op, "attached", TextOf(dom, op.loc, op.n))
      [] op.kind = "allTextContents" -> { Ok(AllTexts(op.loc), op.start) }
      [] op.kind = "count" -> { Ok(Len(dom.cards), op.start) }
      [] op.kind = "all" -> { Ok(Len(dom.cards), op.start) }
      [] op.kind = "title" -> { Ok(<<"Reverse">>, op.start), Ok(<<>>, op.start) }
      [] op.kind = "screenshot" -> { Ok(Void, op.start), Fail("Error", op.start) }

(* The latest an operation can settle. *)
SettlesBy(op) ==
    LET ts == { o.t : o \in Outcomes(op) }
    IN  CHOOSE t \in ts : \A u \in ts : u <= t

----------------------------------------------------------------------------
(* BasePage.  A call is the operations it issues before its await, whether *)
(* it catches their failure, and what it makes of their value.             *)

BaseCall(via, ops, catch, conv) ==
    [via |-> via, ops |-> ops, catch |-> catch, conv |-> conv]

navigate(path) == BaseCall("navigate", <<PageGoto(path)>>, FALSE, "void")

getTitle == BaseCall("getTitle", <<PageTitle>>, FALSE, "value")


(* safeClick swallowing the failure of its click. *)
safeClick_Swallow(locator) == BaseCall("safeClick", <<LocatorClick(locator)>>, TRUE, "void")

safeClick(locator) == BaseCall("safeClick", <<LocatorClick(locator)>>, FALSE, "void")

safeType(locator) == BaseCall("safeType", <<LocatorFill(locator)>>, FALSE, "void")

(* An argument is <<v>>, or <<>> when the caller leaves it out: the       *)
(* parameter then takes its default.                                      *)
Omitted == <<>>
Default(arg, value) == IF arg = Omitted THEN value ELSE arg[1]

(* waitForElementWithPolling leaving the timeout to the session's own. *)
waitForElementWithPolling_NoTimeout(locator, state, timeout) ==
    BaseCall("waitForElementWithPolling",
             <<LocatorWaitFor(locator, Default(state, "visible"), ActionTimeout)>>,
             FALSE, "void")

(* state = 'visible', timeout = 30000; await locator.waitFor({ state, timeout }) *)
waitForElementWithPolling(locator, state, timeout) ==
    BaseCall("waitForElementWithPolling",
             <<LocatorWaitFor(locator, Default(state, "visible"),
                              Default(timeout, DefaultWaitTimeout))>>,
             FALSE, "void")

waitForVisible(locator) ==
    waitForElementWithPolling(locator, <<"visible">>, Omitted)

waitForHidden(locator) ==
    waitForElementWithPolling(locator, <<"hidden">>, Omitted)


(* isVisible without its try/catch. *)
isVisible_NoCatch(locator) ==
    BaseCall("isVisible", <<LocatorWaitFor(locator, "visible", ProbeTimeout)>>, FALSE, "true")

(* try { await waitFor(visible, 5000); return true } catch { return false } *)
isVisible(locator) ==
    BaseCall("isVisible", <<LocatorWaitFor(locator, "visible", ProbeTimeout)>>, TRUE, "true")

(* (await locator.textContent()) || '' *)
getText(locator) == BaseCall("getText", <<LocatorTextContent(locator)>>, FALSE, "orEmpty")

getAllTexts(locator) ==
    BaseCall("getAllTexts", <<LocatorAllTextContents(locator)>>, FALSE, "value")

(* scrollToElement bringing the element into view by clicking it. *)
scrollToElement_Click(locator) ==
    BaseCall("scrollToElement", <<LocatorClick(locator)>>, FALSE, "void")

scrollToElement(locator) ==
    BaseCall("scrollToElement", <<LocatorScrollIntoViewIfNeeded(locator)>>, FALSE, "void")

waitForLoadState(state) ==
    BaseCall("waitForLoadState", <<PageWaitForLoadState(state)>>, FALSE, "void")


(* waitForNavigation that never calls its callback. *)
waitForNavigation_NoAction(callback) ==
    BaseCall("waitForNavigation", <<PageWaitForLoadState("domcontentloaded")>>, FALSE, "void")

(* await Promise.all([page.waitForLoadState('domcontentloaded'), callback()]):  *)
(* the array's elements are evaluated left to right, so the wait is issued      *)
(* first and the callback's operation right after it, both before the await.    *)
waitForNavigation(callback) ==
    BaseCall("waitForNavigation",
             <<PageWaitForLoadState("domcontentloaded")>> \o callback.ops, FALSE, "void")

takeScreenshot == BaseCall("takeScreenshot", <<PageScreenshot>>, FALSE, "void")

(* A call HomePage makes on a locator itself. *)
Direct(op) == BaseCall("direct", <<op>>, FALSE, "value")

(* What a call makes of the value of the operation it awaited. *)
Conv(call, val) ==
    CASE call.conv = "void" -> Void
      [] call.conv = "value" -> val
      [] call.conv = "true" -> TRUE
      [] call.conv = "orEmpty" -> IF Truthy(val) THEN val ELSE <<>>

----------------------------------------------------------------------------
(* Methods: the calls a method awaits one after another, whether the whole *)
(* body sits in a try/catch that returns false, and what it returns.       *)

Method(name, body, catch, ret) ==
    [name |-> name, body |-> body, catch |-> catch, ret |-> ret, forEach |-> FALSE]

goto_NetworkIdle ==
    Method("goto", <<navigate(RootPath), waitForLoadState("networkidle")>>, FALSE, "void")
goto == Method("goto", <<navigate(RootPath), waitForLoadState("load")>>, FALSE, "void")


(* isLoaded without its try/catch. *)
isLoaded_NoCatch ==
    Method("isLoaded",
           <<waitForVisible("logo"), waitForVisible("menMenu"),
             waitForVisible("featuredProductsHeading")>>, FALSE, "true")

isLoaded ==
    Method("isLoaded",
           <<waitForVisible("logo"), waitForVisible("menMenu"),
             waitForVisible("featuredProductsHeading")>>, TRUE, "true")

verifyTitle == Method("verifyTitle", <<getTitle>>, FALSE, "last")


(* isNavigationVisible returning its last probe alone. *)
isNavigationVisible_Last ==
    Method("isNavigationVisible",
           <<isVisible("logo"), isVisible("menMenu"), isVisible("womenMenu")>>, FALSE, "last")

(* isNavigationVisible starting its three probes together. *)
isNavigationVisible_Parallel ==
    Method("isNavigationVisible",
           <<BaseCall("isVisible",
                      <<LocatorWaitFor("logo", "visible", ProbeTimeout),
                        LocatorWaitFor("menMenu", "visible", ProbeTimeout),
                        LocatorWaitFor("womenMenu", "visible", ProbeTimeout)>>,
                      TRUE, "true")>>, FALSE, "last")

isNavigationVisible ==
    Method("isNavigationVisible",
           <<isVisible("logo"), isVisible("menMenu"), isVisible("womenMenu")>>, FALSE, "and")

isFeaturedProductsSectionVisible ==
    Method("isFeaturedProductsSectionVisible",
           <<isVisible("featuredProductsHeading")>>, FALSE, "last")

getFeaturedProductsCount ==
    Method("getFeaturedProductsCount",
           <<waitForVisible("firstProduct"), Direct(LocatorCount("productCards"))>>,
           FALSE, "last")


(* clickMenCategory clicking the Men control. *)
clickMenCategory_Click ==
    Method("clickMenCategory", <<waitForNavigation(safeClick("menMenu"))>>, FALSE, "void")

clickMenCategory ==
    Method("clickMenCategory", <<navigate(MenPath), waitForLoadState("load")>>, FALSE, "void")

clickWomenCategory ==
    Method("clickWomenCategory", <<navigate(WomenPath), waitForLoadState("load")>>, FALSE, "void")

clickBundleOffers ==
    Method("clickBundleOffers", <<waitForNavigation(safeClick("bundleOffersMenu"))>>,
           FALSE, "void")


(* clickFirstFeaturedProduct without its wait for the first product. *)
clickFirstFeaturedProduct_NoWait ==
    Method("clickFirstFeaturedProduct",
           <<scrollToElement("firstProduct"),
             waitForNavigation(safeClick("productLink"))>>, FALSE, "void")

clickFirstFeaturedProduct ==
    Method("clickFirstFeaturedProduct",
           <<scrollToElement("firstProduct"), waitForVisible("firstProduct"),
             waitForNavigation(safeClick("productLink"))>>, FALSE, "void")

(* products = await productCards.all(); then for each product            *)
(* name = await link.textContent(); if (name) names.push(name.trim())     *)
getFeaturedProductNames ==
    [Method("getFeaturedProductNames", <<Direct(LocatorAll("productCards"))>>, FALSE, "names")
        EXCEPT !.forEach = TRUE]

goToAboutUs ==
    Method("goToAboutUs", <<waitForNavigation(safeClick("aboutUsMenu"))>>, FALSE, "void")

goToContact ==
    Method("goToContact", <<waitForNavigation(safeClick("contactMenu"))>>, FALSE, "void")

searchProduct == Method("searchProduct", <<>>, FALSE, "void")

getCurrentUrl == Method("getCurrentUrl", <<>>, FALSE, "url")

(* A BasePage method the scenario calls itself. *)
Public(call) == Method(call.via, <<call>>, FALSE, "last")
PublicAs(name, call) == Method(name, <<call>>, FALSE, "last")

(* names.push(name.trim()) under if (name) *)
PushName(names, name) == IF Truthy(name) THEN Append(names, Trim(name)) ELSE names

RECURSIVE Names(_)
Names(texts) ==
    IF texts = <<>> THEN <<>>
    ELSE PushName(Names(SubSeq(texts, 1, Len(texts) - 1)), texts[Len(texts)])

ReturnValue(m, acc) ==
    CASE m.ret = "void" -> Void
      [] m.ret = "true" -> TRUE
      [] m.ret = "last" -> acc[Len(acc)]
      [] m.ret = "and" -> acc[1] /\ acc[2] /\ acc[3]
      [] m.ret = "names" -> Names(Tail(acc))
      [] m.ret = "url" -> url

----------------------------------------------------------------------------
(* Running a method *)

NoMethod == Method(None, <<>>, FALSE, "void")
(* What the scenario can see of the session when it makes a call. *)
Seen == [url |-> url, scrollY |-> scrollY]
Unseen == [url |-> BlankUrl, scrollY |-> 0]
Idle == [m |-> NoMethod, pc |-> 0, acc |-> <<>>, caught |-> {}, entry |-> Unseen]
NoResult == [name |-> None, kind |-> "none", val |-> Void, err |-> None,
             at |-> 0, caught |-> {}, pending |-> 0, entry |-> Unseen]

Running == frame.pc > 0

(* The call a method makes at step pc: those of its body, then, for the     *)
(* method that loops over the items found, one textContent() per item.      *)
HasStep(m, pc, acc) ==
    \/ pc <= Len(m.body)
    \/ m.forEach /\ pc - Len(m.body) <= acc[Len(m.body)]
CallAt(m, pc) ==
    IF pc <= Len(m.body) THEN m.body[pc]
    ELSE Direct([LocatorTextContent("productLink") EXCEPT !.n = pc - Len(m.body)])

Issued(call, now) ==
    { [call.ops[i] EXCEPT !.slot = i, !.start = now, !.via = call.via] :
        i \in 1..Len(call.ops) }
Event(ev, op, via, o) ==
    [ev |-> ev, kind |-> op.kind, loc |-> op.loc, state |-> op.state, via |-> via,
     ok |-> o.ok, err |-> o.err, timeout |-> op.timeout]
IssueLog(call) == [i \in 1..Len(call.ops) |-> Event("issue", call.ops[i], call.via, Ok(Void, 0))]

(* What of the document an operation depends on. *)
OpReads(op) ==
    CASE op.loc \in Named ->
            {op.loc} \cup (IF op.kind \in {"textContent", "allTextContents"} THEN {"text"} ELSE {})
      [] op.loc = "firstProduct" -> {"firstProduct"}
      [] op.loc = "productCards" -> {"productCards"}
      [] op.kind = "waitForLoadState" ->
            IF op.state = "domcontentloaded" THEN {} ELSE {"network"}
      [] op.loc = "productLink" ->
            {"productCards"} \cup (IF op.kind = "textContent" THEN {} ELSE {"firstProduct"})
      [] OTHER -> {}
Reads(m) ==
    UNION { OpReads(m.body[i].ops[j]) : <<i, j>> \in
              { <<i, j>> \in (1..Len(m.body)) \X (1..2) : j <= Len(m.body[i].ops) } }

(* What a settled operation did to the session. *)
Navigated(path, state) == [url |-> path, loadState |-> state, scrollY |-> 0]
Effect(op, o) ==
    LET same == [url |-> url, loadState |-> loadState, scrollY |-> scrollY]
    IN  CASE op.kind = "goto" ->
                IF o.ok THEN Navigated(op.path, "load")
                ELSE IF o.t = Deadline(op) THEN Navigated(op.path, "commit") ELSE same
          [] op.kind = "click" /\ o.ok ->
                IF IsLink(op.loc) THEN Navigated(Href(op.loc), "commit")
                ELSE [same EXCEPT !.scrollY = Position(op.loc)]
          [] op.kind \in {"fill", "scrollIntoViewIfNeeded"} /\ o.ok ->
                [same EXCEPT !.scrollY = Position(op.loc)]
          [] op.kind = "waitForLoadState" /\ o.ok ->
                IF Level(loadState) >= Level(op.state) THEN same
                ELSE [same EXCEPT !.loadState = op.state]
          [] OTHER -> same

(* An await of the operations together that resumes only once every one   *)
(* of them has settled (Promise.allSettled).                               *)
CanResume_AllSettled ==
    /\ Running
    /\ Cardinality(settled) = Len(CallAt(frame.m, frame.pc).ops)

(* An await resumes once the awaited operation has settled; the await of   *)
(* Promise.all once every operation has, or as soon as one has failed.     *)
CanResume ==
    /\ Running
    /\ \/ \E s \in settled : ~s.o.ok
       \/ Cardinality(settled) = Len(CallAt(frame.m, frame.pc).ops)

Failure == CHOOSE s \in settled : ~s.o.ok
Thrown == \E s \in settled : ~s.o.ok
Call == CallAt(frame.m, frame.pc)
LastValue == (CHOOSE s \in settled : s.slot = Len(Call.ops)).o.val

(* The value the call at this step hands back to the method, when it does. *)
StepValue == IF Thrown THEN FALSE ELSE Conv(Call, LastValue)
StepReturns == ~Thrown \/ Call.catch
StepCaught == IF Thrown /\ Call.catch THEN {Call.via} ELSE {}

(* Operations the finished call leaves in flight go on without it. *)
Orphaned(ops) == { [op EXCEPT !.slot = 0, !.start = 0] : op \in ops }

Finish(kind, val, err, caught) ==
    /\ frame' = Idle
    /\ inflight' = Orphaned(inflight)
    /\ settled' = {}
    /\ result' = [name |-> frame.m.name, kind |-> kind, val |-> val, err |-> err,
                  at |-> elapsed, caught |-> caught,
                  pending |-> Cardinality({ op \in inflight : op.slot # 0 }),
                  entry |-> frame.entry]
    /\ UNCHANGED <<url, loadState, scrollY, dom, elapsed, log>>

----------------------------------------------------------------------------
(* Actions *)

Init ==
    /\ url = BlankUrl
    /\ loadState = "load"
    /\ scrollY = 0
    /\ dom = DefaultDom
    /\ frame = Idle
    /\ inflight = {}
    /\ settled = {}
    /\ elapsed = 0
    /\ log = <<>>
    /\ result = NoResult

(* The scenario calls a method: it runs up to its first await. *)
Invoke(m) ==
    /\ ~Running /\ result = NoResult
    /\ dom' \in Documents(Reads(m))
    /\ elapsed' = 0
    /\ settled' = {}
    /\ UNCHANGED <<url, loadState, scrollY>>
    /\ IF m.body = <<>>
       THEN /\ result' = [NoResult EXCEPT !.name = m.name, !.kind = "return",
                                          !.val = ReturnValue(m, <<>>),
                                          !.entry = Seen]
            /\ log' = <<>>
            /\ UNCHANGED <<frame, inflight>>
       ELSE /\ frame' = [m |-> m, pc |-> 1, acc |-> <<>>, caught |-> {}, entry |-> Seen]
            /\ inflight' = inflight \cup Issued(m.body[1], 0)
            /\ log' = IssueLog(m.body[1])
            /\ result' = NoResult

(* A wait for a load state the document has already reached resolves     *)
(* without a round trip to the browser.                                   *)
Immediate(op) ==
    /\ op.kind = "waitForLoadState"
    /\ Level(loadState) >= Level(op.state)
    /\ ~(op.state = "networkidle" /\ dom.busy)

(* The session settles an operation: of those a call awaits together, one *)
(* that resolves at once first, then in the order of their times.         *)
Settle ==
    \E op \in inflight : \E o \in Outcomes(op) :
        /\ ~CanResume
        /\ op.slot # 0 =>
              \A other \in inflight \ {op} :
                  other.slot # 0 => ~Immediate(other) /\ o.t <= SettlesBy(other)
        /\ inflight' = inflight \ {op}
        /\ url' = Effect(op, o).url
        /\ loadState' = Effect(op, o).loadState
        /\ scrollY' = Effect(op, o).scrollY
        /\ IF op.slot = 0
           THEN UNCHANGED <<settled, elapsed, log>>
           ELSE /\ settled' = settled \cup {[slot |-> op.slot, o |-> o]}
                /\ elapsed' = Max(elapsed, o.t)
                /\ log' = Append(log, Event("settle", op, op.via, o))
        /\ UNCHANGED <<dom, frame, result>>

(* The method goes on to its next await. *)
Continue ==
    /\ CanResume /\ StepReturns
    /\ HasStep(frame.m, frame.pc + 1, Append(frame.acc, StepValue))
    /\ LET next == CallAt(frame.m, frame.pc + 1)
       IN  /\ frame' = [frame EXCEPT !.pc = @ + 1, !.acc = Append(@, StepValue),
                                     !.caught = @ \cup StepCaught]
           /\ inflight' = inflight \cup Issued(next, elapsed)
           /\ log' = log \o IssueLog(next)
    /\ settled' = {}
    /\ UNCHANGED <<url, loadState, scrollY, dom, elapsed, result>>

(* The method returns: after its last step, or from its catch block. *)
Return ==
    /\ CanResume
    /\ \/ /\ StepReturns
          /\ ~HasStep(frame.m, frame.pc + 1, Append(frame.acc, StepValue))
          /\ Finish("return", ReturnValue(frame.m, Append(frame.acc, StepValue)), None,
                    frame.caught \cup StepCaught)
       \/ /\ ~StepReturns /\ frame.m.catch
          /\ Finish("return", FALSE, None, frame.caught \cup {frame.m.name})

(* The failure of an awaited operation leaves the method. *)
Throw ==
    /\ CanResume /\ ~StepReturns /\ ~frame.m.catch
    /\ Finish("throw", Void, Failure.o.err, frame.caught)

(* The scenario takes the result of the finished call. *)
Observe ==
    /\ ~Running /\ result # NoResult
    /\ result' = NoResult
    /\ log' = <<>>
    /\ dom' = DefaultDom
    /\ elapsed' = 0
    /\ UNCHANGED <<url, loadState, scrollY, frame, inflight, settled>>

ArgLocators == {"logo", "firstProduct"}
WaitStates == {"visible", "hidden", "attached", "detached"}

Next ==
    \/ \E p \in {RootPath, MenPath} : Invoke(Public(navigate(p)))
    \/ Invoke(Public(getTitle))
    \/ Invoke(getCurrentUrl)
    \/ \E l \in ArgLocators : Invoke(Public(safeClick(l)))
    \/ \E l \in ArgLocators : Invoke(Public(safeType(l)))
    \/ \E l \in ArgLocators, st \in WaitStates, t \in {ProbeTimeout, DefaultWaitTimeout} :
          Invoke(Public(waitForElementWithPolling(l, <<st>>, <<t>>)))
    \/ \E l \in ArgLocators :
          Invoke(PublicAs("waitForElementWithPolling(locator)",
                          waitForElementWithPolling(l, Omitted, Omitted)))
    \/ \E l \in ArgLocators : Invoke(PublicAs("waitForVisible", waitForVisible(l)))
    \/ \E l \in ArgLocators : Invoke(PublicAs("waitForHidden", waitForHidden(l)))
    \/ \E l \in ArgLocators : Invoke(Public(isVisible(l)))
    \/ \E l \in {"logo", "productLink"} : Invoke(Public(getText(l)))
    \/ \E l \in {"logo", "productCards"} : Invoke(Public(getAllTexts(l)))
    \/ \E l \in ArgLocators : Invoke(Public(scrollToElement(l)))
    \/ \E st \in {"load", "domcontentloaded", "networkidle"} :
          Invoke(Public(waitForLoadState(st)))
    \/ \E l \in {"logo", "productLink"} : Invoke(Public(waitForNavigation(safeClick(l))))
    \/ Invoke(Public(takeScreenshot))
    \/ Invoke(goto)
    \/ Invoke(isLoaded)
    \/ Invoke(verifyTitle)
    \/ Invoke(isNavigationVisible)
    \/ Invoke(isFeaturedProductsSectionVisible)
    \/ Invoke(getFeaturedProductsCount)
    \/ Invoke(clickMenCategory)
    \/ Invoke(clickWomenCategory)
    \/ Invoke(clickBundleOffers)
    \/ Invoke(clickFirstFeaturedProduct)
    \/ Invoke(getFeaturedProductNames)
    \/ Invoke(goToAboutUs)
    \/ Invoke(goToContact)
    \/ Invoke(searchProduct)
    \/ Observe
    \/ Settle
    \/ Continue
    \/ Return
    \/ Throw

Spec == Init /\ [][Next]_vars

----------------------------------------------------------------------------
(* Properties *)

Finished(name) == ~Running /\ result.kind # "none" /\ result.name = name
Current == IF Running THEN frame.m.name ELSE result.name
Settles(i) == log[i].ev = "settle"
Issues(i) == log[i].ev = "issue"
Target == El(dom, log[1].loc, 1)
InTime(e, timeout) == e.visibleAt # Never /\ e.visibleAt < timeout

(* C1: isVisible(locator) never propagates a failure: it always completes  *)
(* with a boolean, no later than the 5000 ms probe timeout; the boolean is *)
(* false whenever the visibility wait failed, its timeout included, and    *)
(* true only when the element became visible within the probe timeout.     *)
C1_IsVisibleNeverThrows ==
    Finished("isVisible") =>
        /\ result.kind = "return"
        /\ result.val \in BOOLEAN
        /\ result.at <= ProbeTimeout
        /\ result.val = log[Len(log)].ok
        /\ result.val => InTime(Target, ProbeTimeout)
        /\ ~InTime(Target, ProbeTimeout) => ~result.val

C1_Witness ==
    /\ Finished("isVisible")
    /\ result.kind = "return" /\ result.val = FALSE
    /\ Target.visibleAt = Never
    /\ log[Len(log)].err = "TimeoutError"
    /\ result.at = ProbeTimeout

(* C2: in waitForNavigation the load-state wait never settles before the  *)
(* action has been issued: both are issued in the same step, the wait     *)
(* first, and the call returns only once both have settled successfully.  *)
IsNavWait(i) == log[i].via = "waitForNavigation" /\ log[i].kind = "waitForLoadState"
IsNavAction(i) == log[i].via = "waitForNavigation" /\ log[i].kind = "click"
UsesWaitForNavigation ==
    {"waitForNavigation", "clickBundleOffers", "clickFirstFeaturedProduct",
     "goToAboutUs", "goToContact"}
C2_ActionIssuedBeforeReadiness ==
    /\ \A i \in 1..Len(log) :
          /\ Issues(i) /\ IsNavWait(i) =>
                i < Len(log) /\ Issues(i + 1) /\ IsNavAction(i + 1)
          /\ Settles(i) /\ IsNavWait(i) =>
                \E j \in 1..(i - 1) : Issues(j) /\ IsNavAction(j)
    /\ \A n \in UsesWaitForNavigation :
          Finished(n) /\ result.kind = "return" =>
              /\ result.pending = 0
              /\ \E i, j \in 1..Len(log) :
                    /\ Settles(i) /\ IsNavWait(i) /\ log[i].ok
                    /\ Settles(j) /\ IsNavAction(j) /\ log[j].ok

C2_Witness ==
    /\ Finished("waitForNavigation") /\ result.kind = "return"
    /\ Len(log) = 4
    /\ Issues(1) /\ IsNavWait(1) /\ Issues(2) /\ IsNavAction(2)
    /\ Settles(3) /\ IsNavAction(3) /\ Settles(4) /\ IsNavWait(4)

(* C3: getFeaturedProductsCount() does not fail when the product-card      *)
(* locator matches nothing but returns 0, and otherwise returns the number *)
(* of matched items once the first one has become visible (a session that  *)
(* fails for a reason other than a timeout set aside).                     *)
C3_CountOfEmptyListingIsZero ==
    Finished("getFeaturedProductsCount") /\ (\A i \in 1..Len(log) : log[i].err # "Error") =>
        /\ Len(dom.cards) = 0 => result.kind = "return" /\ result.val = 0
        /\ result.kind = "return" => result.val = Len(dom.cards)

(* C4: getFeaturedProductNames() returns the trimmed link texts in DOM    *)
(* order, with no entry for an item whose link text is absent, empty or   *)
(* trims to the empty string: the result holds no empty string.          *)
RECURSIVE NonEmptyTrimmed(_)
NonEmptyTrimmed(texts) ==
    IF texts = <<>> THEN <<>>
    ELSE LET t == Head(texts)
             rest == NonEmptyTrimmed(Tail(texts))
         IN  IF t \in {Null, NoLink} \/ Trim(t) = <<>> THEN rest ELSE <<Trim(t)>> \o rest
C4_NamesHoldNoEmptyString ==
    Finished("getFeaturedProductNames") /\ result.kind = "return" =>
        /\ \A i \in 1..Len(result.val) : result.val[i] # <<>>
        /\ result.val = NonEmptyTrimmed(dom.cards)

(* C5: isLoaded() never raises: it returns true when the brand link, the  *)
(* Men control and the 'Featured products' heading all become visible     *)
(* within the default wait timeout (and no wait fails for another reason) *)
(* and false when one of the three never becomes visible.                 *)
LoadedElements == {"logo", "menMenu", "featuredProductsHeading"}
C5_IsLoadedReturnsBoolean ==
    Finished("isLoaded") =>
        /\ result.kind = "return"
        /\ result.val \in BOOLEAN
        /\ ( /\ \A e \in LoadedElements : InTime(dom.el[e], DefaultWaitTimeout)
             /\ \A i \in 1..Len(log) : log[i].err # "Error" ) => result.val
        /\ (\E e \in LoadedElements : dom.el[e].visibleAt = Never) => ~result.val
        /\ result.val => \A e \in LoadedElements : dom.el[e].visibleAt # Never

C5_Witness ==
    /\ Finished("isLoaded") /\ url = RootPath
    /\ result.kind = "return" /\ result.val = FALSE
    /\ dom.el["logo"].visibleAt = Late
    /\ dom.el["menMenu"] = Absent
    /\ result.at = Late + DefaultWaitTimeout

(* C6: isVisible is the only point where a failure of a session operation *)
(* is swallowed.                                                          *)
C6_OnlyIsVisibleSwallows ==
    result.kind # "none" => result.caught \subseteq {"isVisible"}

(* C6, amended: isVisible and isLoaded are the only points where a        *)
(* failure of a session operation is swallowed; a failure awaited          *)
(* anywhere else leaves the method called, as that failure.                *)
C6_OnlyIsVisibleAndIsLoadedSwallow ==
    ~Running /\ result.kind # "none" =>
        /\ result.caught \subseteq {"isVisible", "isLoaded"}
        /\ "isLoaded" \in result.caught => result.name = "isLoaded"
        /\ \A i \in 1..Len(log) :
              Settles(i) /\ ~log[i].ok =>
                  \/ log[i].via = "isVisible"
                  \/ result.name = "isLoaded"
                  \/ result.kind = "throw" /\ result.err = log[i].err

C6_Witness ==
    /\ Finished("isLoaded")
    /\ result.caught = {"isLoaded"}
    /\ result.kind = "return"
    /\ log[Len(log)].err = "TimeoutError"

(* C7: getText and getAllTexts never fail because no element matches: for *)
(* a locator matching nothing getText returns the empty string and         *)
(* getAllTexts the empty sequence; getText also returns the empty string  *)
(* when the element's text content is null or empty.                      *)
C7_TextsOfNoElement ==
    /\ Finished("getText") /\ ~Target.attached /\ log[Len(log)].err # "Error" =>
          result.kind = "return" /\ result.val = <<>>
    /\ Finished("getAllTexts") /\ ~Target.attached =>
          result.kind = "return" /\ result.val = <<>>
    /\ Finished("getText") /\ result.kind = "return" =>
          result.val = (IF TextOf(dom, log[1].loc, 1) \in {Null, <<>>} THEN <<>>
                        ELSE TextOf(dom, log[1].loc, 1))

(* C8: isNavigationVisible() probes the brand link, the Men control and   *)
(* the Women control with isVisible, one after another and all three       *)
(* whatever the earlier results, and returns the conjunction of the three *)
(* results; it never raises.                                               *)
NavElements == <<"logo", "menMenu", "womenMenu">>
C8_NavigationVisibleIsConjunction ==
    Finished("isNavigationVisible") =>
        /\ result.kind = "return"
        /\ Len(log) = 6
        /\ \A k \in 1..3 :
              /\ Issues(2 * k - 1) /\ Settles(2 * k)
              /\ \A i \in {2 * k - 1, 2 * k} :
                    /\ log[i].via = "isVisible" /\ log[i].kind = "waitFor"
                    /\ log[i].state = "visible" /\ log[i].loc = NavElements[k]
        /\ result.val = (log[2].ok /\ log[4].ok /\ log[6].ok)
        /\ result.val => \A k \in 1..3 : dom.el[NavElements[k]].visibleAt # Never
        /\ (\E k \in 1..3 : dom.el[NavElements[k]].visibleAt = Never) => ~result.val

C8_Witness ==
    /\ Finished("isNavigationVisible")
    /\ result.kind = "return" /\ result.val = FALSE
    /\ Len(log) = 6
    /\ ~log[2].ok /\ log[4].ok /\ log[6].ok
    /\ dom.el["logo"] = Absent

(* C9: clickMenCategory() and clickWomenCategory() issue no click and no  *)
(* other element interaction: each requests the navigation to its category *)
(* path, then waits for the 'load' state, and when it has returned the     *)
(* session's URL contains 'collections'.                                   *)
CategoryPath(name) == IF name = "clickMenCategory" THEN MenPath ELSE WomenPath
C9_CategoryByNavigationOnly ==
    Current \in {"clickMenCategory", "clickWomenCategory"} =>
        /\ \A i \in 1..Len(log) : log[i].kind \in {"goto", "waitForLoadState"}
        /\ \A op \in inflight :
              op.slot # 0 =>
                  \/ op.kind = "goto" /\ op.path = CategoryPath(Current)
                  \/ op.kind = "waitForLoadState" /\ op.state = "load"
        /\ \A i \in 1..Len(log) :
              log[i].kind = "waitForLoadState" =>
                  \E j \in 1..(i - 1) : Settles(j) /\ log[j].kind = "goto" /\ log[j].ok
        /\ ~Running /\ result.kind = "return" =>
              /\ Len(log) = 4
              /\ url = CategoryPath(Current)
              /\ Contains(url, "collections")

C9_Witness ==
    /\ Finished("clickWomenCategory") /\ result.kind = "return"
    /\ url = WomenPath /\ Contains(url, "collections")
    /\ Len(log) = 4

(* C10: clickFirstFeaturedProduct() scrolls to the first product, waits   *)
(* for it to be visible, and only then clicks its first link, paired with *)
(* the DOM-parsed wait of waitForNavigation; when it has returned the     *)
(* session's URL contains 'products'.                                      *)
C10_ClickAfterVisible ==
    Current = "clickFirstFeaturedProduct" =>
        /\ \A i \in 1..Len(log) :
              /\ log[i].kind = "waitFor" =>
                    /\ log[i].loc = "firstProduct" /\ log[i].state = "visible"
                    /\ \E j \in 1..(i - 1) :
                          Settles(j) /\ log[j].kind = "scrollIntoViewIfNeeded" /\ log[j].ok
              /\ log[i].kind = "click" =>
                    /\ log[i].loc = "productLink" /\ log[i].via = "waitForNavigation"
                    /\ \E j \in 1..(i - 1) :
                          Settles(j) /\ log[j].kind = "waitFor" /\ log[j].ok
              /\ Issues(i) /\ log[i].kind = "click" => Issues(i - 1) /\ IsNavWait(i - 1)
        /\ ~Running /\ result.kind = "return" =>
              /\ Len(log) = 8
              /\ Contains(url, "products")
              /\ InTime(dom.first, DefaultWaitTimeout)

C10_Witness ==
    /\ Finished("clickFirstFeaturedProduct") /\ result.kind = "return"
    /\ Contains(url, "products")
    /\ dom.first.visibleAt = Late
    /\ result.at = Late

(* C11: goto() first requests the navigation to '/', and waits for a load  *)
(* state only once that navigation has completed; the state it waits for   *)
(* is 'load', never 'networkidle'.  So a document whose network never      *)
(* falls idle does not hold goto() up: once the navigation completed,      *)
(* goto() returns, at the root URL and with the document loaded.           *)
C11_GotoWaitsForLoadOnly ==
    Current = "goto" =>
       /\ Len(log) >= 1 => Issues(1) /\ log[1].kind = "goto" /\ log[1].via = "navigate"
       /\ \A i \in 1..Len(log) :
             log[i].kind = "waitForLoadState" =>
                /\ log[i].state = "load"
                /\ i >= 3
                /\ Settles(2) /\ log[2].kind = "goto" /\ log[2].ok
       /\ \A op \in inflight : op.slot # 0 => op.state # "networkidle"
       /\ Cardinality({ op \in inflight : op.slot # 0 }) <= 1
       /\ (Finished("goto") /\ Len(log) >= 2 /\ log[2].ok) =>
             /\ result.kind = "return"
             /\ result.at < NavigationTimeout
             /\ url = RootPath /\ loadState = "load"
C11_Witness ==
    /\ Finished("goto") /\ result.kind = "return"
    /\ dom.busy
    /\ Len(log) = 4 /\ log[3].kind = "waitForLoadState" /\ log[4].ok
    /\ url = RootPath

(* C12 as stated: at most one operation issued by the page objects is in   *)
(* flight at any time, except inside waitForNavigation, where there are    *)
(* two.                                                                    *)
Own == { op \in inflight : op.slot # 0 }
LeftBehind == { op \in inflight : op.slot = 0 }
InWaitForNavigation == Running /\ Call.via = "waitForNavigation"
C12_AtMostOneInFlight ==
    Cardinality(inflight) <= (IF InWaitForNavigation THEN 2 ELSE 1)

(* C12: the running method has at most one operation in flight, except     *)
(* inside waitForNavigation, which issues the domcontentloaded wait and    *)
(* the action together; every other call issues one operation and issues   *)
(* nothing more until it has settled.  What else is in flight is the       *)
(* domcontentloaded wait that a waitForNavigation which failed left behind.*)
C12_AtMostOneInFlightPerCall ==
    /\ ~Running => Own = {}
    /\ Running =>
          /\ Cardinality(Own) + Cardinality(settled) = Len(Call.ops)
          /\ Len(Call.ops) = (IF InWaitForNavigation THEN 2 ELSE 1)
          /\ InWaitForNavigation /\ settled = {} =>
                /\ \E op \in Own : op.kind = "waitForLoadState" /\ op.state = "domcontentloaded"
                /\ \E op \in Own : op.kind = "click"
    /\ \A op \in LeftBehind :
          op.kind = "waitForLoadState" /\ op.via = "waitForNavigation"
C12_Witness ==
    /\ InWaitForNavigation
    /\ Cardinality(Own) = 2
    /\ LeftBehind # {}

(* C13: waitForElementWithPolling(locator, state, timeout) returns only    *)
(* when the element came into the requested state (visible, hidden,        *)
(* attached, detached) before the timeout, and it returns at that moment;  *)
(* when the element does not, the call fails, with a TimeoutError at the   *)
(* timeout unless the wait itself failed with another error.  With the     *)
(* arguments left out the state is 'visible' and the timeout 30000 ms;     *)
(* waitForVisible waits for 'visible' and waitForHidden for 'hidden', both *)
(* with that timeout.                                                      *)
Moments == {0, Soon, Late}
InState(e, state, t) ==
    CASE state = "visible" -> e.visibleAt # Never /\ e.visibleAt <= t
      [] state = "hidden" -> ~(e.visibleAt # Never /\ e.visibleAt <= t)
      [] state = "attached" -> e.attached
      [] state = "detached" -> ~e.attached
WaitCalls == {"waitForElementWithPolling", "waitForElementWithPolling(locator)",
              "waitForVisible", "waitForHidden"}
C13_WaitReturnsOnlyInState ==
    \A n \in WaitCalls :
        Finished(n) =>
           LET state == log[1].state
               timeout == log[1].timeout
               never == \A t \in Moments : t < timeout => ~InState(Target, state, t)
           IN  /\ log[1].kind = "waitFor" /\ state \in WaitStates
               /\ result.kind \in {"return", "throw"}
               /\ result.kind = "return" =>
                     /\ result.at < timeout
                     /\ InState(Target, state, result.at)
                     /\ \A t \in Moments : t < result.at => ~InState(Target, state, t)
               /\ result.kind = "throw" => result.err \in {"TimeoutError", "Error"}
               /\ result.kind = "throw" /\ result.err = "TimeoutError" =>
                     never /\ result.at = timeout
               /\ never => result.kind = "throw"
               /\ n = "waitForElementWithPolling(locator)" =>
                     state = "visible" /\ timeout = DefaultWaitTimeout
               /\ n = "waitForVisible" => state = "visible" /\ timeout = DefaultWaitTimeout
               /\ n = "waitForHidden" => state = "hidden" /\ timeout = DefaultWaitTimeout
C13_Witness ==
    /\ Finished("waitForVisible") /\ result.kind = "throw"
    /\ result.err = "TimeoutError" /\ result.at = DefaultWaitTimeout
    /\ Target.attached

(* C14: scrollToElement on an element that is in the viewport leaves the   *)
(* scroll position and the URL as they were when it was called, and after  *)
(* any scrollToElement that returned the element is in the viewport: a     *)
(* second call in a row finds it there and changes nothing more.           *)
InView(loc, y) == y = Position(loc)
C14_ScrollToElementIdempotent ==
    Finished("scrollToElement") =>
       /\ log[1].kind = "scrollIntoViewIfNeeded"
       /\ result.kind = "return" => InView(log[1].loc, scrollY) /\ url = result.entry.url
       /\ InView(log[1].loc, result.entry.scrollY) =>
             scrollY = result.entry.scrollY /\ url = result.entry.url
C14_Witness ==
    /\ Finished("scrollToElement") /\ result.kind = "return"
    /\ log[1].loc = "firstProduct"
    /\ result.entry.scrollY # 0
    /\ InView("firstProduct", result.entry.scrollY)
    /\ scrollY = result.entry.scrollY

(* C15: when one half of waitForNavigation fails, the call fails with that *)
(* failure at once: nothing more settles for it, the method throws that    *)
(* error at the time it occurred (a click that timed out: at the action    *)
(* timeout, before the load-state wait's own deadline), and whatever half  *)
(* has not settled by then stays in flight after the call.  A call that    *)
(* returned left nothing in flight.                                        *)
NavSettles == { i \in 1..Len(log) : Settles(i) /\ log[i].via = "waitForNavigation" }
SingleStep == {"waitForNavigation", "clickBundleOffers", "goToAboutUs", "goToContact"}
C15_WaitForNavigationFailsFast ==
    /\ \A i \in NavSettles : ~log[i].ok => i = Len(log)
    /\ \A n \in UsesWaitForNavigation :
          /\ Finished(n) /\ result.kind = "return" => result.pending = 0
          /\ (Finished(n) /\ result.kind = "throw"
                /\ log[Len(log)].via = "waitForNavigation") =>
                /\ ~log[Len(log)].ok /\ result.err = log[Len(log)].err
                /\ result.pending + Cardinality(NavSettles) = Len(waitForNavigation(safeClick(None)).ops)
                /\ (n \in SingleStep /\ IsNavAction(Len(log)) /\ result.err = "TimeoutError") =>
                      result.at = ActionTimeout
C15_Witness ==
    /\ Finished("clickBundleOffers") /\ result.kind = "throw"
    /\ IsNavAction(Len(log)) /\ result.err = "TimeoutError"
    /\ result.at = ActionTimeout
    /\ result.pending > 0
    /\ \E op \in LeftBehind : op.kind = "waitForLoadState"


====
